---- MODULE Spec2Model ----
(***************************************************************************)
(* Model of the post resource handlers of routes/api/posts.js: create      *)
(* post, add comment, list posts, get post, delete post, delete comment,   *)
(* found / lost toggles, over a document store of Post documents.          *)
(*                                                                         *)
(* Spec      : every handler runs to completion before the next starts.    *)
(* SpecAsync : a handler that saves suspends between its load and its save *)
(*             (await), so requests on the same post interleave.           *)
(***************************************************************************)
EXTENDS Integers, Sequences, FiniteSets, TLC

\* ---------------------------------------------------------------- bounds
MaxPosts == 1        \* post ids the store hands out
MaxComments == 3     \* comment ids the store hands out
MaxInflight == 2     \* SpecAsync: handlers in flight at once

\* ------------------------------------------------- users and input values
\* User documents, read only: identity -> display name.
UserStore == [u \in {"A", "B"} |-> [name |-> IF u = "A" THEN "Alice" ELSE "Bob"]]
Users == DOMAIN UserStore

\* Request field values; "" stands for an empty or missing field.
ValidDates == {"2024-01-01"}
Body(text, foundedDate, location) ==
    [text |-> text, foundedDate |-> foundedDate, location |-> location]
CreateBodies ==
    { Body("lost wallet", "2024-01-01", "library"),
      Body("", "2024-01-01", "library"),
      Body("lost wallet", "", "library"),
      Body("lost wallet", "someday", "library"),
      Body("lost wallet", "2024-01-01", ""),
      Body("", "", "") }
CommentTexts == {"", "seen it"}

PostIds == 1..MaxPosts
CommentIds == 1..MaxComments
Slots == 1..MaxInflight

VARIABLES
    posts,      \* the Post collection: id -> document
    nextId,     \* next post id the store assigns
    nextCid,    \* next comment id the store assigns
    req,        \* the request handled last
    res,        \* the response sent last
    ops,        \* the store calls issued by the handler that answered last
    slots       \* SpecAsync: the handlers in flight, one per slot

vars == <<posts, nextId, nextCid, req, res, ops, slots>>

\* ------------------------------------------------------------- responses
NoReq == [op |-> "none", user |-> "", id |-> 0, cid |-> 0,
          text |-> "", foundedDate |-> "", location |-> ""]

Resp(status, msg) ==
    [status |-> status, msg |-> msg, errors |-> <<>>,
     post |-> <<>>, comments |-> <<>>, posts |-> <<>>]

ServerError == Resp(500, "Server Error")

\* What a handler run amounts to: its response, the store write it asks
\* for ("none", "insert", "save", "delete"), the in-memory document, the
\* store calls it issued, and the document as it was loaded.
Outcome(r, write, doc, calls, snap) ==
    [res |-> r, write |-> write, doc |-> doc, ops |-> calls, snap |-> snap]

\* ------------------------------------------------------------- the store
UserFindById(u) == IF u \in DOMAIN UserStore THEN <<UserStore[u]>> ELSE <<>>

FindById(store, id) == IF id \in DOMAIN store THEN <<store[id]>> ELSE <<>>

\* Schema defaults of a new Post document.
PostDefaults(id) == [found |-> FALSE, comments |-> <<>>, date |-> id]

\* doc.save(): the stored document becomes the in-memory document; a
\* document deleted in the meantime is not brought back.
Save(store, doc) ==
    IF doc.id \in DOMAIN store THEN [store EXCEPT ![doc.id] = doc] ELSE store

Insert(store, doc) == [i \in DOMAIN store \cup {doc.id} |->
                          IF i = doc.id THEN doc ELSE store[i]]

FindByIdAndDelete(store, id) == [i \in DOMAIN store \ {id} |-> store[i]]

RECURSIVE SortByDateDesc(_)
SortByDateDesc(S) ==
    IF S = {} THEN <<>>
    ELSE LET p == CHOOSE x \in S : \A y \in S : y.date <= x.date
         IN  <<p>> \o SortByDateDesc(S \ {p})

Find(store) == {store[i] : i \in DOMAIN store}

Range(seq) == {seq[i] : i \in 1..Len(seq)}

\* ------------------------------------------------------------ validation
NotEmpty(s) == s /= ""
IsDate(s) == s \in ValidDates

Fails(ok, msg) == IF ok THEN <<>> ELSE <<msg>>

CreatePostValidation(text, foundedDate, location) ==
    Fails(NotEmpty(text), "Text is required")
    \o Fails(NotEmpty(foundedDate), "Founded date is required")
    \o Fails(IsDate(foundedDate), "Found date should be a date")
    \o Fails(NotEmpty(location), "Location is required")

AddCommentValidation(text) == Fails(NotEmpty(text), "Text is required")

\* -------------------------------------------------------------- handlers
\* POST /
\* Mutant: the post is stamped with the display name as its owner.
NewPostOwnedByName(id, u, name, text, foundedDate, location) ==
    [id |-> id, user |-> name, name |-> name, text |-> text,
     foundedDate |-> foundedDate, location |-> location,
     found |-> PostDefaults(id).found,
     comments |-> PostDefaults(id).comments,
     date |-> PostDefaults(id).date]

NewPost(id, u, name, text, foundedDate, location) ==
    [id |-> id, user |-> u, name |-> name, text |-> text,
     foundedDate |-> foundedDate, location |-> location,
     found |-> PostDefaults(id).found,
     comments |-> PostDefaults(id).comments,
     date |-> PostDefaults(id).date]

CreatePostHandler(id, u, text, foundedDate, location) ==
    LET errors == CreatePostValidation(text, foundedDate, location)
        user == UserFindById(u)
    IN  IF errors /= <<>>
        THEN Outcome([Resp(400, "") EXCEPT !.errors = errors],
                     "none", <<>>, <<>>, <<>>)
        ELSE IF user = <<>>
        THEN Outcome(ServerError, "none", <<>>, <<"User.findById">>, <<>>)
        ELSE LET newPost == NewPost(id, u, user[1].name, text,
                                    foundedDate, location)
             IN  Outcome([Resp(200, "") EXCEPT !.post = <<newPost>>],
                         "insert", <<newPost>>,
                         <<"User.findById", "save">>, <<>>)

\* POST /comment/:id
NewComment(cid, u, name, text) ==
    [id |-> cid, user |-> u, name |-> name, text |-> text]

\* Mutant: push in place of unshift.
Push(comments, c) == comments \o <<c>>

Unshift(comments, c) == <<c>> \o comments

\* Mutant: the lookups are issued before the validation result is read.
AddCommentHandlerLookupFirst(post, cid, u, text) ==
    LET errors == AddCommentValidation(text)
        user == UserFindById(u)
    IN  IF errors /= <<>>
        THEN Outcome([Resp(400, "") EXCEPT !.errors = errors],
                     "none", <<>>,
                     <<"User.findById", "Post.findById">>, post)
        ELSE IF user = <<>> \/ post = <<>>
        THEN Outcome(ServerError, "none", <<>>,
                     <<"User.findById", "Post.findById">>, post)
        ELSE LET newComment == NewComment(cid, u, user[1].name, text)
                 doc == [post[1] EXCEPT
                            !.comments = Unshift(post[1].comments, newComment)]
             IN  Outcome([Resp(200, "") EXCEPT !.comments = doc.comments],
                         "save", <<doc>>,
                         <<"User.findById", "Post.findById", "save">>, post)

AddCommentHandler(post, cid, u, text) ==
    LET errors == AddCommentValidation(text)
        user == UserFindById(u)
    IN  IF errors /= <<>>
        THEN Outcome([Resp(400, "") EXCEPT !.errors = errors],
                     "none", <<>>, <<>>, <<>>)
        ELSE IF user = <<>>
        THEN Outcome(ServerError, "none", <<>>,
                     <<"User.findById", "Post.findById">>, post)
        ELSE IF post = <<>>
        THEN Outcome(ServerError, "none", <<>>,
                     <<"User.findById", "Post.findById">>, post)
        ELSE LET newComment == NewComment(cid, u, user[1].name, text)
                 doc == [post[1] EXCEPT
                            !.comments = Unshift(post[1].comments, newComment)]
             IN  Outcome([Resp(200, "") EXCEPT !.comments = doc.comments],
                         "save", <<doc>>,
                         <<"User.findById", "Post.findById", "save">>, post)

\* GET /
GetPostsHandler(store) ==
    Outcome([Resp(200, "") EXCEPT !.posts = SortByDateDesc(Find(store))],
            "none", <<>>, <<"Post.find">>, <<>>)

\* GET /:id
GetPostHandler(post) ==
    IF post = <<>>
    THEN Outcome(Resp(404, "Post not found"), "none", <<>>,
                 <<"Post.findById">>, post)
    ELSE Outcome([Resp(200, "") EXCEPT !.post = post], "none", <<>>,
                 <<"Post.findById">>, post)

\* DELETE /:id
\* Mutant: the ownership check is missing.
DeletePostHandlerNoOwnerCheck(post, u) ==
    IF post = <<>>
    THEN Outcome(Resp(404, "Post not found"), "none", <<>>,
                 <<"Post.findById">>, post)
    ELSE Outcome(Resp(200, "Post removed"), "delete", post,
                 <<"Post.findById", "Post.findByIdAndDelete">>, post)

DeletePostHandler(post, u) ==
    IF post = <<>>
    THEN Outcome(Resp(404, "Post not found"), "none", <<>>,
                 <<"Post.findById">>, post)
    ELSE IF post[1].user /= u
    THEN Outcome(Resp(401, "User not authorized"), "none", <<>>,
                 <<"Post.findById">>, post)
    ELSE Outcome(Resp(200, "Post removed"), "delete", post,
                 <<"Post.findById", "Post.findByIdAndDelete">>, post)

\* DELETE /comment/:id/:comment_id
FindComment(comments, cid) ==
    LET hits == {i \in 1..Len(comments) : comments[i].id = cid}
    IN  IF hits = {} THEN <<>>
        ELSE <<comments[CHOOSE i \in hits : \A j \in hits : i <= j]>>

\* Mutant: the filter drops every comment of the user who owns comment cid.
FilterCommentsOfUser(comments, cid) ==
    LET owner == FindComment(comments, cid)
        keep(c) == owner = <<>> \/ c.user /= owner[1].user
    IN  SelectSeq(comments, keep)

FilterComments(comments, cid) ==
    LET keep(c) == c.id /= cid IN SelectSeq(comments, keep)

\* Mutant: the caller is checked against the owner of the post.
DeleteCommentHandlerPostOwner(post, cid, u) ==
    IF post = <<>>
    THEN Outcome(ServerError, "none", <<>>, <<"Post.findById">>, post)
    ELSE LET comment == FindComment(post[1].comments, cid)
         IN  IF comment = <<>>
             THEN Outcome(Resp(404, "Comment does not exist"), "none", <<>>,
                          <<"Post.findById">>, post)
             ELSE IF post[1].user /= u
             THEN Outcome(Resp(401, "User not authorized"), "none", <<>>,
                          <<"Post.findById">>, post)
             ELSE LET doc == [post[1] EXCEPT
                        !.comments = FilterComments(post[1].comments, cid)]
                  IN  Outcome([Resp(200, "") EXCEPT
                                  !.comments = doc.comments],
                              "save", <<doc>>,
                              <<"Post.findById", "save">>, post)

DeleteCommentHandler(post, cid, u) ==
    IF post = <<>>
    THEN Outcome(ServerError, "none", <<>>, <<"Post.findById">>, post)
    ELSE LET comment == FindComment(post[1].comments, cid)
         IN  IF comment = <<>>
             THEN Outcome(Resp(404, "Comment does not exist"), "none", <<>>,
                          <<"Post.findById">>, post)
             ELSE IF comment[1].user /= u
             THEN Outcome(Resp(401, "User not authorized"), "none", <<>>,
                          <<"Post.findById">>, post)
             ELSE LET doc == [post[1] EXCEPT
                        !.comments = FilterComments(post[1].comments, cid)]
                  IN  Outcome([Resp(200, "") EXCEPT
                                  !.comments = doc.comments],
                              "save", <<doc>>,
                              <<"Post.findById", "save">>, post)

\* PUT /found/:id
\* Mutant: the ownership check comes before the state check.
FoundHandlerOwnerFirst(post, u) ==
    IF post = <<>>
    THEN Outcome(ServerError, "none", <<>>, <<"Post.findById">>, post)
    ELSE IF post[1].user /= u
    THEN Outcome(Resp(401, "User not authorized"), "none", <<>>,
                 <<"Post.findById">>, post)
    ELSE IF post[1].found
    THEN Outcome(Resp(400, "Lost item already found"), "none", <<>>,
                 <<"Post.findById">>, post)
    ELSE LET doc == [post[1] EXCEPT !.found = TRUE]
         IN  Outcome([Resp(200, "") EXCEPT !.post = <<doc>>],
                     "save", <<doc>>, <<"Post.findById", "save">>, post)

FoundHandler(post, u) ==
    IF post = <<>>
    THEN Outcome(ServerError, "none", <<>>, <<"Post.findById">>, post)
    ELSE IF post[1].found
    THEN Outcome(Resp(400, "Lost item already found"), "none", <<>>,
                 <<"Post.findById">>, post)
    ELSE IF post[1].user /= u
    THEN Outcome(Resp(401, "User not authorized"), "none", <<>>,
                 <<"Post.findById">>, post)
    ELSE LET doc == [post[1] EXCEPT !.found = TRUE]
         IN  Outcome([Resp(200, "") EXCEPT !.post = <<doc>>],
                     "save", <<doc>>, <<"Post.findById", "save">>, post)

\* PUT /lost/:id
\* Mutant: the ownership check is missing.
LostHandlerNoOwnerCheck(post, u) ==
    IF post = <<>>
    THEN Outcome(ServerError, "none", <<>>, <<"Post.findById">>, post)
    ELSE IF ~post[1].found
    THEN Outcome(Resp(400, "Lost item already lost"), "none", <<>>,
                 <<"Post.findById">>, post)
    ELSE LET doc == [post[1] EXCEPT !.found = FALSE]
         IN  Outcome([Resp(200, "") EXCEPT !.post = <<doc>>],
                     "save", <<doc>>, <<"Post.findById", "save">>, post)

LostHandler(post, u) ==
    IF post = <<>>
    THEN Outcome(ServerError, "none", <<>>, <<"Post.findById">>, post)
    ELSE IF ~post[1].found
    THEN Outcome(Resp(400, "Lost item already lost"), "none", <<>>,
                 <<"Post.findById">>, post)
    ELSE IF post[1].user /= u
    THEN Outcome(Resp(401, "User not authorized"), "none", <<>>,
                 <<"Post.findById">>, post)
    ELSE LET doc == [post[1] EXCEPT !.found = FALSE]
         IN  Outcome([Resp(200, "") EXCEPT !.post = <<doc>>],
                     "save", <<doc>>, <<"Post.findById", "save">>, post)

\* ---------------------------------------------------------- store writes
\* Mutant: a save is dropped when the stored document is no longer the
\* one that was loaded.
CommitIfUnchanged(store, out) ==
    CASE out.write = "insert" -> Insert(store, out.doc[1])
      [] out.write = "save"   ->
            IF FindById(store, out.doc[1].id) = out.snap
            THEN Save(store, out.doc[1]) ELSE store
      [] out.write = "delete" -> FindByIdAndDelete(store, out.doc[1].id)
      [] OTHER                -> store

\* The store after the write a handler asked for.
Commit(store, out) ==
    CASE out.write = "insert" -> Insert(store, out.doc[1])
      [] out.write = "save"   -> Save(store, out.doc[1])
      [] out.write = "delete" -> FindByIdAndDelete(store, out.doc[1].id)
      [] OTHER                -> store

Init ==
    /\ posts = <<>>
    /\ nextId = 1
    /\ nextCid = 1
    /\ req = NoReq
    /\ res = Resp(0, "")
    /\ ops = <<>>
    /\ slots = [s \in Slots |-> [phase |-> "idle", req |-> NoReq,
                                 out |-> Outcome(Resp(0, ""), "none",
                                                 <<>>, <<>>, <<>>)]]

\* A handler that ran to completion: its write is in the store, its
\* response is sent.
Answer(r, out) ==
    /\ req = NoReq
    /\ posts' = Commit(posts, out)
    /\ req' = r
    /\ res' = out.res
    /\ ops' = out.ops

\* ------------------------------------------ actions, one handler at a time
CreatePost ==
    \E u \in Users, body \in CreateBodies :
        LET out == CreatePostHandler(nextId, u, body.text, body.foundedDate,
                                     body.location)
        IN  /\ out.write = "insert" => nextId <= MaxPosts
            /\ Answer([NoReq EXCEPT !.op = "createPost", !.user = u,
                          !.text = body.text,
                          !.foundedDate = body.foundedDate,
                          !.location = body.location], out)
            /\ nextId' = IF out.write = "insert" THEN nextId + 1 ELSE nextId
            /\ UNCHANGED <<nextCid, slots>>

AddComment ==
    \E u \in Users, id \in PostIds, text \in CommentTexts :
        LET out == AddCommentHandler(FindById(posts, id), nextCid, u, text)
        IN  /\ out.write = "save" => nextCid <= MaxComments
            /\ Answer([NoReq EXCEPT !.op = "addComment", !.user = u,
                          !.id = id, !.text = text], out)
            /\ nextCid' = IF out.write = "save" THEN nextCid + 1 ELSE nextCid
            /\ UNCHANGED <<nextId, slots>>

GetPosts ==
    \E u \in Users :
        /\ Answer([NoReq EXCEPT !.op = "getPosts", !.user = u],
                  GetPostsHandler(posts))
        /\ UNCHANGED <<nextId, nextCid, slots>>

GetPost ==
    \E u \in Users, id \in PostIds :
        /\ Answer([NoReq EXCEPT !.op = "getPost", !.user = u, !.id = id],
                  GetPostHandler(FindById(posts, id)))
        /\ UNCHANGED <<nextId, nextCid, slots>>

DeletePost ==
    \E u \in Users, id \in PostIds :
        /\ Answer([NoReq EXCEPT !.op = "deletePost", !.user = u, !.id = id],
                  DeletePostHandler(FindById(posts, id), u))
        /\ UNCHANGED <<nextId, nextCid, slots>>

DeleteComment ==
    \E u \in Users, id \in PostIds, cid \in CommentIds :
        /\ Answer([NoReq EXCEPT !.op = "deleteComment", !.user = u,
                      !.id = id, !.cid = cid],
                  DeleteCommentHandler(FindById(posts, id), cid, u))
        /\ UNCHANGED <<nextId, nextCid, slots>>

PutFound ==
    \E u \in Users, id \in PostIds :
        /\ Answer([NoReq EXCEPT !.op = "found", !.user = u, !.id = id],
                  FoundHandler(FindById(posts, id), u))
        /\ UNCHANGED <<nextId, nextCid, slots>>

PutLost ==
    \E u \in Users, id \in PostIds :
        /\ Answer([NoReq EXCEPT !.op = "lost", !.user = u, !.id = id],
                  LostHandler(FindById(posts, id), u))
        /\ UNCHANGED <<nextId, nextCid, slots>>

\* The response is on the wire and the request is over.
End ==
    /\ req /= NoReq
    /\ req' = NoReq
    /\ res' = Resp(0, "")
    /\ ops' = <<>>
    /\ UNCHANGED <<posts, nextId, nextCid, slots>>

Next ==
    \/ End
    \/ CreatePost
    \/ AddComment
    \/ GetPosts
    \/ GetPost
    \/ DeletePost
    \/ DeleteComment
    \/ PutFound
    \/ PutLost

Spec == Init /\ [][Next]_vars

\* ------------------------------------- actions, handlers suspended at await
\* A handler starts in a free slot: it loads, runs up to its store write
\* and suspends there (phase "saving"). A handler that answers without a
\* store write never suspends: Spec covers it, and it is no step here.
NoOutcome == Outcome(Resp(0, ""), "none", <<>>, <<>>, <<>>)

\* What is kept of a handler once it has answered: its response and the
\* document as it had loaded it.
Answered(r, snap) == Outcome(r, "none", <<>>, <<>>, snap)

FreeSlot(s) ==
    /\ slots[s].phase = "idle"
    /\ \A t \in Slots : slots[t].phase = "idle" => s <= t

Start(s, r, out) ==
    /\ FreeSlot(s)
    /\ out.write /= "none"
    /\ slots' = [slots EXCEPT ![s] =
                    [phase |-> "saving", req |-> r, out |-> out]]
    /\ UNCHANGED <<posts, req, res, ops>>

BeginCreatePost ==
    \E s \in Slots, u \in Users, body \in CreateBodies :
        LET out == CreatePostHandler(nextId, u, body.text, body.foundedDate,
                                     body.location)
        IN  /\ out.write = "insert" => nextId <= MaxPosts
            /\ Start(s, [NoReq EXCEPT !.op = "createPost", !.user = u,
                            !.text = body.text,
                            !.foundedDate = body.foundedDate,
                            !.location = body.location], out)
            /\ nextId' = IF out.write = "insert" THEN nextId + 1 ELSE nextId
            /\ UNCHANGED nextCid

BeginAddComment ==
    \E s \in Slots, u \in Users, id \in PostIds, text \in CommentTexts :
        LET out == AddCommentHandler(FindById(posts, id), nextCid, u, text)
        IN  /\ out.write = "save" => nextCid <= MaxComments
            /\ Start(s, [NoReq EXCEPT !.op = "addComment", !.user = u,
                            !.id = id, !.text = text], out)
            /\ nextCid' = IF out.write = "save" THEN nextCid + 1 ELSE nextCid
            /\ UNCHANGED nextId

BeginDeletePost ==
    \E s \in Slots, u \in Users, id \in PostIds :
        /\ Start(s, [NoReq EXCEPT !.op = "deletePost", !.user = u,
                        !.id = id],
                 DeletePostHandler(FindById(posts, id), u))
        /\ UNCHANGED <<nextId, nextCid>>

BeginDeleteComment ==
    \E s \in Slots, u \in Users, id \in PostIds, cid \in CommentIds :
        /\ Start(s, [NoReq EXCEPT !.op = "deleteComment", !.user = u,
                        !.id = id, !.cid = cid],
                 DeleteCommentHandler(FindById(posts, id), cid, u))
        /\ UNCHANGED <<nextId, nextCid>>

BeginFound ==
    \E s \in Slots, u \in Users, id \in PostIds :
        /\ Start(s, [NoReq EXCEPT !.op = "found", !.user = u, !.id = id],
                 FoundHandler(FindById(posts, id), u))
        /\ UNCHANGED <<nextId, nextCid>>

BeginLost ==
    \E s \in Slots, u \in Users, id \in PostIds :
        /\ Start(s, [NoReq EXCEPT !.op = "lost", !.user = u, !.id = id],
                 LostHandler(FindById(posts, id), u))
        /\ UNCHANGED <<nextId, nextCid>>

\* The awaited store write completes and the handler answers. A save of a
\* document deleted since it was loaded writes nothing; the handler then
\* answers its 200 or the generic 500.
Finish ==
    \E s \in Slots :
        /\ slots[s].phase = "saving"
        /\ LET out == slots[s].out
               gone == out.write = "save" /\ out.doc[1].id \notin DOMAIN posts
           IN  /\ posts' = Commit(posts, out)
               /\ \E r \in {out.res} \cup (IF gone THEN {ServerError} ELSE {}) :
                     slots' = [slots EXCEPT ![s] =
                                  [phase |-> "done", req |-> slots[s].req,
                                   out |-> Answered(r, out.snap)]]
        /\ UNCHANGED <<nextId, nextCid, req, res, ops>>

\* The response is on the wire and the request is over.
Release ==
    \E s \in Slots :
        /\ slots[s].phase = "done"
        /\ slots' = [slots EXCEPT ![s] =
                        [phase |-> "idle", req |-> NoReq, out |-> NoOutcome]]
        /\ UNCHANGED <<posts, nextId, nextCid, req, res, ops>>

NextAsync ==
    \/ BeginCreatePost
    \/ BeginAddComment
    \/ BeginDeletePost
    \/ BeginDeleteComment
    \/ BeginFound
    \/ BeginLost
    \/ Finish
    \/ Release

SpecAsync == Init /\ [][NextAsync]_vars

\* ------------------------------------------------------------ properties
\* The post a request names, as stored before the handler ran.
Target == posts[req'.id]
OnExisting(op) == req'.op = op /\ req'.id \in DOMAIN posts

IsSubSeqWithout(S, T, i) ==
    T = SubSeq(S, 1, i - 1) \o SubSeq(S, i + 1, Len(S))

HasComment(S, cid) == \E i \in 1..Len(S) : S[i].id = cid

\* C1: delete-post by an authenticated caller who is not the owner of an
\* existing post answers 401 "User not authorized" and leaves the store as
\* it was; a get-post that follows returns the post, same owner, text,
\* found flag and comments.
C1_DeleteByNonOwner ==
    [][ (OnExisting("deletePost") /\ req'.user /= Target.user)
        => /\ res'.status = 401
           /\ res'.msg = "User not authorized"
           /\ posts' = posts
           /\ LET got == GetPostHandler(FindById(posts', req'.id)).res
              IN  /\ got.status = 200
                  /\ got.post = <<Target>> ]_vars

C1_Witness ==
    /\ req.op = "deletePost"
    /\ req.id \in DOMAIN posts
    /\ posts[req.id].user /= req.user
    /\ res.status = 401

\* C2: found and lost look at the flag before the caller: found on a post
\* already found answers 400 "Lost item already found" to every caller,
\* lost on a post not found answers 400 "Lost item already lost" to every
\* caller; a caller who is not the owner gets 401 exactly when the
\* transition would change the flag; the store is unchanged in each error.
C2_StateBeforeOwnership ==
    [][ /\ (OnExisting("found") /\ Target.found)
           => /\ res'.status = 400
              /\ res'.msg = "Lost item already found"
        /\ (OnExisting("lost") /\ ~Target.found)
           => /\ res'.status = 400
              /\ res'.msg = "Lost item already lost"
        /\ (OnExisting("found") /\ req'.user /= Target.user)
           => (res'.status = 401 <=> ~Target.found)
        /\ (OnExisting("lost") /\ req'.user /= Target.user)
           => (res'.status = 401 <=> Target.found)
        /\ (req'.op \in {"found", "lost"} /\ res'.status \in {400, 401})
           => posts' = posts ]_vars

C2_Witness ==
    /\ req.op = "found"
    /\ req.id \in DOMAIN posts
    /\ posts[req.id].found
    /\ posts[req.id].user /= req.user
    /\ res.status = 400
    /\ res.msg = "Lost item already found"

\* C3: delete-comment authorizes against the owner of the comment, never
\* the owner of the post: the comment's owner removes it (200) whoever owns
\* the post, anyone else gets 401 "User not authorized" and the comments
\* stay, the post's owner included. So a comment leaves a post that still
\* exists only in a delete-comment by the comment's own user.
C3_CommentOwnerOnly ==
    [][ /\ \A i \in 1..(IF OnExisting("deleteComment")
                        THEN Len(Target.comments) ELSE 0) :
              LET c == Target.comments[i]
              IN  c.id = req'.cid =>
                    IF req'.user = c.user
                    THEN /\ res'.status = 200
                         /\ ~HasComment(posts'[req'.id].comments, c.id)
                    ELSE /\ res'.status = 401
                         /\ res'.msg = "User not authorized"
                         /\ posts' = posts
        /\ \A p \in DOMAIN posts \cap DOMAIN posts' :
              \A i \in 1..Len(posts[p].comments) :
                 LET c == posts[p].comments[i]
                 IN  ~HasComment(posts'[p].comments, c.id)
                       => /\ req'.op = "deleteComment"
                          /\ req'.id = p
                          /\ req'.cid = c.id
                          /\ req'.user = c.user ]_vars

C3_Witness ==
    /\ req.op = "deleteComment"
    /\ res.status = 200
    /\ req.id \in DOMAIN posts
    /\ posts[req.id].user /= req.user
    /\ posts[req.id].comments /= <<>>

\* C4: a successful add-comment on a post with comments S leaves
\* <<c>> \o S, c owned by the caller and carrying the request text, and
\* answers with that sequence. So the comments of every post are ordered
\* most recently added first (ids are handed out in increasing order).
NewestFirst(S) == \A i \in 1..Len(S) : \A j \in 1..Len(S) :
                     i < j => S[i].id > S[j].id

C4_Prepend ==
    [][ /\ (req'.op = "addComment" /\ res'.status = 200)
           => /\ req'.id \in DOMAIN posts
              /\ req'.id \in DOMAIN posts'
              /\ LET S == Target.comments
                     T == posts'[req'.id].comments
                 IN  /\ Len(T) = Len(S) + 1
                     /\ T[1].user = req'.user
                     /\ T[1].text = req'.text
                     /\ \A i \in 1..Len(S) : T[i + 1] = S[i]
                     /\ res'.comments = T
        /\ \A p \in DOMAIN posts' : NewestFirst(posts'[p].comments) ]_vars

C4_Witness ==
    /\ req.op = "addComment"
    /\ res.status = 200
    /\ Len(res.comments) >= 3
    /\ res.comments[2].user /= res.comments[1].user

\* C5: a successful delete-comment with id k on comments S removes exactly
\* one entry, the one with id k, and keeps the others in their order; when
\* no comment of the post has id k it answers 404 "Comment does not exist"
\* and S is unchanged.
C5_RemoveExactlyOne ==
    [][ /\ (req'.op = "deleteComment" /\ res'.status = 200)
           => /\ req'.id \in DOMAIN posts
              /\ req'.id \in DOMAIN posts'
              /\ LET S == Target.comments
                     T == posts'[req'.id].comments
                 IN  /\ Len(T) = Len(S) - 1
                     /\ \E i \in 1..Len(S) :
                           /\ S[i].id = req'.cid
                           /\ IsSubSeqWithout(S, T, i)
                     /\ res'.comments = T
        /\ (OnExisting("deleteComment")
              /\ ~HasComment(Target.comments, req'.cid))
           => /\ res'.status = 404
              /\ res'.msg = "Comment does not exist"
              /\ posts' = posts ]_vars

C5_Witness ==
    /\ req.op = "deleteComment"
    /\ res.status = 200
    /\ Len(res.comments) = 2
    /\ res.comments[1].id > req.cid
    /\ req.cid > res.comments[2].id

\* C6: a create-post whose fields pass validation, from authenticated user
\* u, persists and returns a post with user = u, found = false and no
\* comments, and changes no other post of the store.
ValidBody(r) ==
    /\ r.text /= ""
    /\ r.foundedDate \in ValidDates
    /\ r.location /= ""

C7_MissingPostNotFound ==
    [][ (req'.op = "addComment" /\ req'.text /= ""
           /\ req'.id \notin DOMAIN posts)
        => /\ res'.status = 404
           /\ posts' = posts ]_vars

\* C8: a create-post or add-comment that fails field validation is
\* answered 400 with the failing fields before any store call: no User or
\* Post lookup, no post created, no comment inserted, the store unchanged.
C8_ValidationFirst ==
    [][ /\ (req'.op = "createPost" /\ ~ValidBody(req'))
           => /\ res'.status = 400
              /\ res'.errors /= <<>>
              /\ ("Text is required" \in Range(res'.errors))
                    <=> (req'.text = "")
              /\ ("Founded date is required" \in Range(res'.errors))
                    <=> (req'.foundedDate = "")
              /\ ("Found date should be a date" \in Range(res'.errors))
                    <=> (req'.foundedDate \notin ValidDates)
              /\ ("Location is required" \in Range(res'.errors))
                    <=> (req'.location = "")
              /\ ops' = <<>>
              /\ posts' = posts
              /\ nextId' = nextId
        /\ (req'.op = "addComment" /\ req'.text = "")
           => /\ res'.status = 400
              /\ res'.errors = <<"Text is required">>
              /\ ops' = <<>>
              /\ posts' = posts
              /\ nextCid' = nextCid ]_vars

C8_Witness ==
    /\ req.op = "addComment"
    /\ req.text = ""
    /\ req.id \in DOMAIN posts
    /\ res.status = 400
    /\ ops = <<>>

Saved(s) ==
    /\ slots[s].phase = "saving"
    /\ slots'[s].phase = "done"
    /\ slots[s].out.write = "save"
    /\ slots[s].out.doc[1].id \in DOMAIN posts

C10_LastWriteWins ==
    [][ \A s \in Slots : Saved(s) =>
          LET r == slots[s].req
              doc == slots[s].out.doc[1]
              snap == slots[s].out.snap[1]
              answer == slots'[s].out.res
          IN  /\ posts'[doc.id] = doc
              /\ answer.status = 200
              /\ r.op = "deleteComment"
                 => /\ \E i \in 1..Len(snap.comments) :
                          /\ snap.comments[i].id = r.cid
                          /\ IsSubSeqWithout(snap.comments, doc.comments, i)
                    /\ [doc EXCEPT !.comments = snap.comments] = snap
                    /\ answer.comments = doc.comments
              /\ r.op = "addComment"
                 => /\ doc.comments /= <<>>
                    /\ Tail(doc.comments) = snap.comments
                    /\ doc.comments[1].user = r.user
                    /\ [doc EXCEPT !.comments = snap.comments] = snap
              /\ r.op = "found" => doc = [snap EXCEPT !.found = TRUE]
              /\ r.op = "lost" => doc = [snap EXCEPT !.found = FALSE] ]_vars

C10_Witness ==
    \E s \in Slots, t \in Slots :
        /\ s /= t
        /\ slots[s].phase = "done" /\ slots[t].phase = "done"
        /\ slots[s].req.op = "deleteComment"
        /\ slots[t].req.op = "deleteComment"
        /\ slots[s].out.res.status = 200 /\ slots[t].out.res.status = 200
        /\ slots[s].req.id = slots[t].req.id
        /\ slots[s].req.cid /= slots[t].req.cid
        /\ slots[s].out.snap = slots[t].out.snap
        /\ slots[s].req.id \in DOMAIN posts
        /\ HasComment(posts[slots[s].req.id].comments, slots[s].req.cid)
        /\ ~HasComment(posts[slots[s].req.id].comments, slots[t].req.cid)

====
